---- MODULE Spec2Model ----
(***************************************************************************)
(* promptsub: the template parser (Template._parse_and_validate, Variable  *)
(* append/close), the substitution engine (Template.substitute,            *)
(* Variable.substitute), the requirement traversal (variable_keys) and the *)
(* Prompt facade, as a state machine over one Prompt object.               *)
(*                                                                         *)
(* A Python str is a sequence of one-character strings; an index is the    *)
(* code's 0-based index.  None is <<>> and a value v that may be None is   *)
(* <<v>>.  A call that may raise returns [obj or value, raised].           *)
(***************************************************************************)
EXTENDS Integers, Sequences, FiniteSets, TLC

\* Number of tokens a template text is made of, at most.
MaxTokens == 5

(***************************************************************************)
(* Python values                                                           *)
(***************************************************************************)
None == <<>>

Some(v) == <<v>>

Min(a, b) == IF a < b THEN a ELSE b

\* text[lo:hi] and text[lo:], indices clamped as Python clamps them
Slice(text, lo, hi) == SubSeq(text, Min(lo, Len(text)) + 1, Min(hi, Len(text)))

SliceFrom(text, lo) == SubSeq(text, Min(lo, Len(text)) + 1, Len(text))

RECURSIVE Join(_)
\* "".join(list): each element of the list is a str
Join(strs) == IF strs = <<>> THEN <<>> ELSE Head(strs) \o Join(Tail(strs))

(***************************************************************************)
(* special_chatacters.py                                                   *)
(***************************************************************************)
sc_TEMPLATE == [OPENING |-> "[", CLOSING |-> "]", SEPARATOR |-> "|"]

sc_VARIABLE == [OPENING |-> "{", CLOSING |-> "}"]

sc_VARIABLE_OPTIONS == [MUTE |-> "~", EQ |-> "="]

\* ascii_letters + digits + "_", cut to the characters the model's texts use
sc_VARIABLE_NAME_SAFE == {"a", "b", "t", "x", "y", "7", "_"}

characters_to_check == {sc_TEMPLATE.OPENING, sc_TEMPLATE.CLOSING, sc_TEMPLATE.SEPARATOR, sc_VARIABLE.OPENING, sc_VARIABLE.CLOSING}

(***************************************************************************)
(* errors.py                                                               *)
(***************************************************************************)
InternalError(message) == [type |-> "InternalError", message |-> message, args |-> <<>>, details |-> None]

VariableError == [type |-> "VariableError", message |-> "", args |-> <<>>, details |-> None]

ParametersTypeError(message, key) == [type |-> "ParametersTypeError", message |-> message, args |-> <<key>>, details |-> None]

SyntaxErrorDetails(text, offset) == [text |-> text, offset |-> offset, filename |-> None, lineno |-> 1]

\* details is None or Some(SyntaxErrorDetails); args fill the %s of the message
PromptSyntaxError(message, args, details) == [type |-> "PromptSyntaxError", message |-> message, args |-> args, details |-> details]

Ok(obj) == [obj |-> obj, raised |-> None]

Raise(obj, err) == [obj |-> obj, raised |-> Some(err)]

(***************************************************************************)
(* prompt_components/base.py and variable.py                               *)
(***************************************************************************)
\* Variable(start_index=i); input_target says which list _input_characters is
\* Mutant: the variable starts after its opening delimiter
NewVariable_StartAfterOpening(start_index) == [type |-> "Variable", start_index |-> Some(start_index[1] + 1), end_index |-> None, input_target |-> "key", muted |-> FALSE, key |-> None, required_value |-> None, key_characters |-> <<>>, required_value_characters |-> <<>>]

NewVariable(start_index) == [type |-> "Variable", start_index |-> start_index, end_index |-> None, input_target |-> "key", muted |-> FALSE, key |-> None, required_value |-> None, key_characters |-> <<>>, required_value_characters |-> <<>>]

\* the attributes of a Template before __attrs_post_init__ runs
NewTemplate(start_index, input_text) == [type |-> "Template", start_index |-> start_index, end_index |-> None, input_characters |-> <<>>, input_text |-> input_text, components |-> <<>>, templates |-> <<>>, variables |-> <<>>, alternative |-> None]

\* the list self._input_characters refers to
InputCharacters(c) ==
    IF c.type = "Template" THEN c.input_characters
    ELSE IF c.input_target = "key" THEN c.key_characters
    ELSE IF c.input_target = "required_value" THEN c.required_value_characters
    ELSE <<>>

\* self._input_characters.append(char)
AppendInputCharacter(c, char) ==
    IF c.type = "Template" THEN [c EXCEPT !.input_characters = Append(@, char)]
    ELSE IF c.input_target = "key" THEN [c EXCEPT !.key_characters = Append(@, char)]
    ELSE IF c.input_target = "required_value" THEN [c EXCEPT !.required_value_characters = Append(@, char)]
    ELSE c

PromptComponentAppend(c, char) ==
    IF c.start_index = None
    THEN Raise(c, InternalError("Start index must be set before appending"))
    ELSE IF c.end_index # None
    THEN Raise(c, InternalError("No appending after the end index is set"))
    ELSE Ok(AppendInputCharacter(c, char))

\* character is None or Some(char); the offset is the length of the list
RaiseDetailedSyntaxError(v, err_message, args, character) ==
    LET err_detail_characters ==
            << <<sc_VARIABLE.OPENING>>,
               IF v.muted THEN <<sc_VARIABLE_OPTIONS.MUTE>> ELSE <<>> >>
            \o [i \in 1..Len(v.key_characters) |-> <<v.key_characters[i]>>]
            \o << IF character # None THEN <<character[1]>> ELSE <<>> >>
        err_details == SyntaxErrorDetails(Join(err_detail_characters), Len(err_detail_characters))
    IN  Raise(v, PromptSyntaxError(err_message, args, Some(err_details)))

\* Mutant: the first mute symbol is accepted wherever it stands in the key
VariableMute_Anywhere(v) ==
    IF ~v.muted
    THEN Ok([v EXCEPT !.muted = TRUE])
    ELSE RaiseDetailedSyntaxError(v, "A mute symbol is only allowed in the beginning", <<>>, Some(sc_VARIABLE_OPTIONS.MUTE))

VariableMute(v) ==
    IF Len(InputCharacters(v)) = 0 /\ ~v.muted
    THEN Ok([v EXCEPT !.muted = TRUE])
    ELSE RaiseDetailedSyntaxError(v, "A mute symbol is only allowed in the beginning", <<>>, Some(sc_VARIABLE_OPTIONS.MUTE))

VariableProcessOption(v, char) ==
    IF char = sc_VARIABLE_OPTIONS.MUTE THEN VariableMute(v)
    ELSE IF char = sc_VARIABLE_OPTIONS.EQ THEN Ok([v EXCEPT !.input_target = "required_value"])
    ELSE Ok(v)

\* Mutant: the characters of a required value are checked like those of a key
VariableAppend_CheckedRequiredValue(v, char) ==
    IF char \in {sc_VARIABLE_OPTIONS.MUTE, sc_VARIABLE_OPTIONS.EQ} /\ v.input_target = "key" THEN VariableProcessOption(v, char)
    ELSE IF char \notin sc_VARIABLE_NAME_SAFE
    THEN RaiseDetailedSyntaxError(v, "Char %s not allowed in variable key", <<char>>, Some(char))
    ELSE PromptComponentAppend(v, char)

VariableAppend(v, char) ==
    IF v.input_target = "required_value" THEN PromptComponentAppend(v, char)
    ELSE IF char \in {sc_VARIABLE_OPTIONS.MUTE, sc_VARIABLE_OPTIONS.EQ} THEN VariableProcessOption(v, char)
    ELSE IF char \notin sc_VARIABLE_NAME_SAFE
    THEN RaiseDetailedSyntaxError(v, "Char %s not allowed in variable key", <<char>>, Some(char))
    ELSE PromptComponentAppend(v, char)

\* Mutant: an empty key is accepted
VariableSetKey_AllowEmpty(v) ==
    Ok([v EXCEPT !.key = Some(v.key_characters), !.key_characters = <<>>])

VariableSetKey(v) ==
    IF v.key_characters = <<>>
    THEN Raise(v, PromptSyntaxError("Variable key can not be empty", <<>>, None))
    ELSE Ok([v EXCEPT !.key = Some(v.key_characters), !.key_characters = <<>>])

VariableSetRequiredValue(v) ==
    IF v.required_value_characters = <<>>
    THEN IF v.input_target = "required_value"
         THEN RaiseDetailedSyntaxError(v, "Required value can not be empty", <<>>, None)
         ELSE Ok(v)
    ELSE Ok([v EXCEPT !.required_value = Some(v.required_value_characters), !.required_value_characters = <<>>])

\* Order of calls matters
VariableBeforeClose(v) ==
    LET r == VariableSetRequiredValue(v)
    IN  IF r.raised # None THEN r ELSE VariableSetKey(r.obj)

(***************************************************************************)
(* prompt_components/template.py: parsing                                  *)
(***************************************************************************)
RECURSIVE ParseAndValidate(_)
RECURSIVE ScanLoop(_, _, _)
RECURSIVE ScanChar(_, _, _, _)

\* Template(start_index=..., input_text=...): __attrs_post_init__ parses a given text
TemplateInit(start_index, input_text) ==
    IF input_text # None
    THEN ParseAndValidate(NewTemplate(start_index, input_text))
    ELSE Ok(NewTemplate(start_index, input_text))

TemplateBeforeClose(t) ==
    ParseAndValidate([t EXCEPT !.input_text = Some(Join([i \in 1..Len(t.input_characters) |-> <<t.input_characters[i]>>]))])

\* component._before_close(), by the component's class
BeforeClose(c) == IF c.type = "Template" THEN TemplateBeforeClose(c) ELSE VariableBeforeClose(c)

\* self._input_characters = []
ResetInputCharacters(c) ==
    IF c.type = "Template" THEN [c EXCEPT !.input_characters = <<>>]
    ELSE [c EXCEPT !.input_target = "detached"]

PromptComponentClose(c, end_index) ==
    LET r == BeforeClose(c)
    IN  IF r.raised # None THEN r
        ELSE Ok([ResetInputCharacters(r.obj) EXCEPT !.end_index = Some(end_index)])

\* component.append(char), by the component's class
ComponentAppend(c, char) == IF c.type = "Variable" THEN VariableAppend(c, char) ELSE PromptComponentAppend(c, char)

\* The locals of _parse_and_validate while it scans self.input_text
ScanStart(self) == [self |-> self, current_component |-> None, nested_template_stack |-> <<>>, raised |-> None, broke |-> FALSE]

\* current_component.append(char) inside the scan
ScanAppend(s, char) ==
    LET r == ComponentAppend(s.current_component[1], char)
    IN  [s EXCEPT !.current_component = Some(r.obj), !.raised = r.raised]

\* Mutant: the component is closed at the index of its closing character
CloseAndSaveComponent_EndAtIndex(s, current_index, save_destination) ==
    LET r == PromptComponentClose(s.current_component[1], current_index)
    IN  IF r.raised # None THEN [s EXCEPT !.raised = r.raised]
        ELSE [s EXCEPT !.self.components = Append(@, r.obj),
                       !.self.templates = IF save_destination = "templates" THEN Append(@, r.obj) ELSE @,
                       !.self.variables = IF save_destination = "variables" THEN Append(@, r.obj) ELSE @,
                       !.current_component = None]

\* Mutant: the closed component stays the current one
CloseAndSaveComponent_StaysCurrent(s, current_index, save_destination) ==
    LET r == PromptComponentClose(s.current_component[1], current_index + 1)
    IN  IF r.raised # None THEN [s EXCEPT !.raised = r.raised]
        ELSE [s EXCEPT !.self.components = Append(@, r.obj),
                       !.self.templates = IF save_destination = "templates" THEN Append(@, r.obj) ELSE @,
                       !.self.variables = IF save_destination = "variables" THEN Append(@, r.obj) ELSE @,
                       !.current_component = Some(r.obj)]

\* save_destination is "templates" or "variables"
CloseAndSaveComponent(s, current_index, save_destination) ==
    LET r == PromptComponentClose(s.current_component[1], current_index + 1)
    IN  IF r.raised # None THEN [s EXCEPT !.raised = r.raised]
        ELSE [s EXCEPT !.self.components = Append(@, r.obj),
                       !.self.templates = IF save_destination = "templates" THEN Append(@, r.obj) ELSE @,
                       !.self.variables = IF save_destination = "variables" THEN Append(@, r.obj) ELSE @,
                       !.current_component = None]

\* case [sc.TEMPLATE.SEPARATOR, None]
ScanSeparator(s, text, i) ==
    LET alt == TemplateInit(None, Some(SliceFrom(text, i + 1)))
    IN  IF alt.raised # None THEN [s EXCEPT !.raised = alt.raised]
        ELSE [s EXCEPT !.self.alternative = Some(alt.obj),
                       !.self.input_text = Some(Slice(text, 0, i)),
                       !.broke = TRUE]

\* Mutant: the error of a misplaced special character carries the index of the character
ScanChar_OffsetIsIndex(s, text, i, char) ==
    LET cc == s.current_component
        none == cc = None
        isTemplate == cc # None /\ cc[1].type = "Template"
        isVariable == cc # None /\ cc[1].type = "Variable"
    IN  IF char \notin characters_to_check
        THEN IF ~none THEN ScanAppend(s, char) ELSE s
        ELSE IF char = sc_TEMPLATE.OPENING /\ none
        THEN [s EXCEPT !.current_component = Some(TemplateInit(Some(i), None).obj)]
        ELSE IF char = sc_TEMPLATE.OPENING /\ isTemplate
        THEN ScanAppend([s EXCEPT !.nested_template_stack = Append(@, "...")], char)
        ELSE IF char = sc_TEMPLATE.CLOSING /\ isTemplate
        THEN IF s.nested_template_stack # <<>>
             THEN ScanAppend([s EXCEPT !.nested_template_stack = SubSeq(@, 1, Len(@) - 1)], char)
             ELSE CloseAndSaveComponent(s, i, "templates")
        ELSE IF isTemplate
        THEN ScanAppend(s, char)
        ELSE IF char = sc_VARIABLE.OPENING /\ none
        THEN [s EXCEPT !.current_component = Some(NewVariable(Some(i)))]
        ELSE IF char = sc_VARIABLE.CLOSING /\ isVariable
        THEN CloseAndSaveComponent(s, i, "variables")
        ELSE IF char = sc_TEMPLATE.SEPARATOR /\ none
        THEN ScanSeparator(s, text, i)
        ELSE [s EXCEPT !.raised = Some(PromptSyntaxError("Wrong special character '%s' position", <<char>>, Some(SyntaxErrorDetails(text, i))))]

\* Mutant: a [ inside the open section is captured without being counted
ScanChar_NoNestingCount(s, text, i, char) ==
    LET cc == s.current_component
        none == cc = None
        isTemplate == cc # None /\ cc[1].type = "Template"
        isVariable == cc # None /\ cc[1].type = "Variable"
    IN  IF char \notin characters_to_check
        THEN IF ~none THEN ScanAppend(s, char) ELSE s
        ELSE IF char = sc_TEMPLATE.OPENING /\ none
        THEN [s EXCEPT !.current_component = Some(TemplateInit(Some(i), None).obj)]
        ELSE IF char = sc_TEMPLATE.OPENING /\ isTemplate
        THEN ScanAppend(s, char)
        ELSE IF char = sc_TEMPLATE.CLOSING /\ isTemplate
        THEN IF s.nested_template_stack # <<>>
             THEN ScanAppend([s EXCEPT !.nested_template_stack = SubSeq(@, 1, Len(@) - 1)], char)
             ELSE CloseAndSaveComponent(s, i, "templates")
        ELSE IF isTemplate
        THEN ScanAppend(s, char)
        ELSE IF char = sc_VARIABLE.OPENING /\ none
        THEN [s EXCEPT !.current_component = Some(NewVariable(Some(i)))]
        ELSE IF char = sc_VARIABLE.CLOSING /\ isVariable
        THEN CloseAndSaveComponent(s, i, "variables")
        ELSE IF char = sc_TEMPLATE.SEPARATOR /\ none
        THEN ScanSeparator(s, text, i)
        ELSE [s EXCEPT !.raised = Some(PromptSyntaxError("Wrong special character '%s' position", <<char>>, Some(SyntaxErrorDetails(text, i + 1))))]

\* One iteration of `for i, char in enumerate(text)`
ScanChar(s, text, i, char) ==
    LET cc == s.current_component
        none == cc = None
        isTemplate == cc # None /\ cc[1].type = "Template"
        isVariable == cc # None /\ cc[1].type = "Variable"
    IN  IF char \notin characters_to_check
        THEN IF ~none THEN ScanAppend(s, char) ELSE s
        ELSE IF char = sc_TEMPLATE.OPENING /\ none
        THEN [s EXCEPT !.current_component = Some(TemplateInit(Some(i), None).obj)]
        ELSE IF char = sc_TEMPLATE.OPENING /\ isTemplate
        THEN ScanAppend([s EXCEPT !.nested_template_stack = Append(@, "...")], char)
        ELSE IF char = sc_TEMPLATE.CLOSING /\ isTemplate
        THEN IF s.nested_template_stack # <<>>
             THEN ScanAppend([s EXCEPT !.nested_template_stack = SubSeq(@, 1, Len(@) - 1)], char)
             ELSE CloseAndSaveComponent(s, i, "templates")
        ELSE IF isTemplate
        THEN ScanAppend(s, char)
        ELSE IF char = sc_VARIABLE.OPENING /\ none
        THEN [s EXCEPT !.current_component = Some(NewVariable(Some(i)))]
        ELSE IF char = sc_VARIABLE.CLOSING /\ isVariable
        THEN CloseAndSaveComponent(s, i, "variables")
        ELSE IF char = sc_TEMPLATE.SEPARATOR /\ none
        THEN ScanSeparator(s, text, i)
        ELSE [s EXCEPT !.raised = Some(PromptSyntaxError("Wrong special character '%s' position", <<char>>, Some(SyntaxErrorDetails(text, i + 1))))]

\* The for loop from index i on: it ends at the end of text, at a break or at a raise
ScanLoop(s, text, i) ==
    IF i >= Len(text) \/ s.raised # None \/ s.broke THEN s
    ELSE ScanLoop(ScanChar(s, text, i, text[i + 1]), text, i + 1)

\* Mutant: the text left to a block is not checked for emptiness
ParseAndValidate_AllowEmpty(self) ==
    LET text == self.input_text[1]
        s == ScanLoop(ScanStart(self), text, 0)
    IN  IF s.raised # None THEN Raise(s.self, s.raised[1])
        ELSE IF s.current_component # None
        THEN Raise(s.self, PromptSyntaxError("%s not closed", <<s.current_component[1].type>>, Some(SyntaxErrorDetails(text, s.current_component[1].start_index[1] + 1))))
        ELSE Ok(s.self)

\* The checks after the iteration
AfterLoop(s, text) ==
    IF s.raised # None THEN Raise(s.self, s.raised[1])
    ELSE IF s.self.input_text = Some(<<>>)
    THEN Raise(s.self, PromptSyntaxError("A template can not be empty", <<>>, None))
    ELSE IF s.current_component # None
    THEN Raise(s.self, PromptSyntaxError("%s not closed", <<s.current_component[1].type>>, Some(SyntaxErrorDetails(text, s.current_component[1].start_index[1] + 1))))
    ELSE Ok(s.self)

ParseAndValidate(self) ==
    LET text == self.input_text[1]
    IN  AfterLoop(ScanLoop(ScanStart(self), text, 0), text)

(***************************************************************************)
(* Parameters: a dict is the sequence of its items in insertion order;     *)
(* keys and values carry their Python type                                 *)
(***************************************************************************)
PyStr(chars) == [t |-> "str", s |-> chars]

PyInt(n) == [t |-> "int", n |-> n]

\* the float whole.tenth, such as 2.5
PyFloat(whole, tenth) == [t |-> "float", whole |-> whole, tenth |-> tenth]

PyNone == [t |-> "NoneType"]

RECURSIVE DictGet(_, _, _)
\* params.get(key, default)
DictGet(params, key, default) ==
    IF params = <<>> THEN default
    ELSE IF Head(params).key = key THEN Head(params).value
    ELSE DictGet(Tail(params), key, default)

Digit(d) == <<"0", "1", "2", "3", "4", "5", "6", "7", "8", "9">>[d + 1]

RECURSIVE Decimal(_)
\* the decimal digits of n >= 0
Decimal(n) == IF n < 10 THEN <<Digit(n)>> ELSE Decimal(n \div 10) \o <<Digit(n % 10)>>

\* str(value) of an int
StrOfInt(n) == IF n < 0 THEN <<"-">> \o Decimal(0 - n) ELSE Decimal(n)

\* str(value) of the float whole.tenth
StrOfFloat(value) == Decimal(value.whole) \o <<".">> \o <<Digit(value.tenth)>>

\* str(value) of an int or a float
StrOfNumber(value) == IF value.t = "int" THEN StrOfInt(value.n) ELSE StrOfFloat(value)

(***************************************************************************)
(* prompt_components: substitution                                         *)
(***************************************************************************)
\* Mutant: the required value is not compared
VariableSubstitute_NoRequiredValue(v, params) ==
    LET result == DictGet(params, PyStr(v.key[1]), PyStr(<<>>))
    IN  IF result = PyStr(<<>>)
        THEN [value |-> <<>>, raised |-> Some(VariableError)]
        ELSE [value |-> IF v.muted THEN <<>> ELSE result.s, raised |-> None]

\* Mutant: the mute flag is not read
VariableSubstitute_MuteIgnored(v, params) ==
    LET result == DictGet(params, PyStr(v.key[1]), PyStr(<<>>))
    IN  IF result = PyStr(<<>>) \/ (v.required_value # None /\ result # PyStr(v.required_value[1]))
        THEN [value |-> <<>>, raised |-> Some(VariableError)]
        ELSE [value |-> result.s, raised |-> None]

\* Mutant: a missing or empty value is substituted as it is
VariableSubstitute_EmptyAccepted(v, params) ==
    LET result == DictGet(params, PyStr(v.key[1]), PyStr(<<>>))
    IN  IF result # PyStr(<<>>) /\ v.required_value # None /\ result # PyStr(v.required_value[1])
        THEN [value |-> <<>>, raised |-> Some(VariableError)]
        ELSE [value |-> IF v.muted THEN <<>> ELSE result.s, raised |-> None]

VariableSubstitute(v, params) ==
    IF v.end_index = None
    THEN [value |-> <<>>, raised |-> Some(InternalError("End index must be set before substitution"))]
    ELSE LET result == DictGet(params, PyStr(v.key[1]), PyStr(<<>>))
         IN  IF result = PyStr(<<>>)
             THEN [value |-> <<>>, raised |-> Some(VariableError)]
             ELSE IF v.required_value # None /\ v.required_value # Some(<<>>) /\ result # PyStr(v.required_value[1])
             THEN [value |-> <<>>, raised |-> Some(VariableError)]
             ELSE IF v.muted
             THEN [value |-> <<>>, raised |-> None]
             ELSE [value |-> result.s, raised |-> None]

RECURSIVE SubstituteVariables_SkipUnsatisfied(_, _)
\* Mutant: an unsatisfied variable is substituted by the empty text
SubstituteVariables_SkipUnsatisfied(variables, params) ==
    IF variables = <<>> THEN [value |-> <<>>, raised |-> None]
    ELSE LET r == VariableSubstitute(Head(variables), params)
             rest == SubstituteVariables_SkipUnsatisfied(Tail(variables), params)
         IN  [value |-> <<IF r.raised # None THEN <<>> ELSE r.value>> \o rest.value, raised |-> None]

RECURSIVE SubstituteVariables(_, _)
\* [variable.substitute(params) for variable in self._variables]: the first raise ends it
SubstituteVariables(variables, params) ==
    IF variables = <<>> THEN [value |-> <<>>, raised |-> None]
    ELSE LET r == VariableSubstitute(Head(variables), params)
         IN  IF r.raised # None THEN [value |-> <<>>, raised |-> r.raised]
             ELSE LET rest == SubstituteVariables(Tail(variables), params)
                  IN  IF rest.raised # None THEN rest
                      ELSE [value |-> <<r.value>> \o rest.value, raised |-> None]

RECURSIVE TemplateSubstitute(_, _)
RECURSIVE SubstituteComponentsFrom(_, _, _, _, _)

\* The loop `for component in reversed(self._components)` with n components left
SubstituteComponentsFrom(self, params, n, text, variable_substitutions) ==
    IF n = 0 THEN [value |-> text, raised |-> None]
    ELSE LET component == self.components[n]
             r == IF component.type = "Template"
                  THEN TemplateSubstitute(component, params)
                  ELSE IF component.type = "Variable"
                  THEN IF variable_substitutions = <<>>
                       THEN [value |-> <<>>, raised |-> Some([type |-> "IndexError", message |-> "pop from empty list", args |-> <<>>, details |-> None])]
                       ELSE [value |-> variable_substitutions[Len(variable_substitutions)], raised |-> None]
                  ELSE [value |-> <<>>, raised |-> Some(InternalError("Wrong component type: %s"))]
             rest == IF component.type = "Variable" /\ variable_substitutions # <<>>
                     THEN SubSeq(variable_substitutions, 1, Len(variable_substitutions) - 1)
                     ELSE variable_substitutions
         IN  IF r.raised # None THEN r
             ELSE SubstituteComponentsFrom(self, params, n - 1,
                      Slice(text, 0, component.start_index[1]) \o r.value \o SliceFrom(text, component.end_index[1]),
                      rest)

RECURSIVE SubstituteComponentsForward(_, _, _, _, _)
\* Mutant: the components are spliced from left to right, at their recorded offsets
SubstituteComponentsForward(self, params, k, text, variable_substitutions) ==
    IF k > Len(self.components) THEN [value |-> text, raised |-> None]
    ELSE LET component == self.components[k]
             r == IF component.type = "Template"
                  THEN TemplateSubstitute(component, params)
                  ELSE [value |-> Head(variable_substitutions), raised |-> None]
             rest == IF component.type = "Variable" THEN Tail(variable_substitutions) ELSE variable_substitutions
         IN  IF r.raised # None THEN r
             ELSE SubstituteComponentsForward(self, params, k + 1,
                      Slice(text, 0, component.start_index[1]) \o r.value \o SliceFrom(text, component.end_index[1]),
                      rest)

SubstituteAllComponents_Forward(self, params, variable_substitutions) ==
    SubstituteComponentsForward(self, params, 1, self.input_text[1], variable_substitutions)

SubstituteAllComponents(self, params, variable_substitutions) ==
    SubstituteComponentsFrom(self, params, Len(self.components), self.input_text[1], variable_substitutions)

\* Mutant: without an alternative the unsatisfied-variable signal is raised again
TemplateSubstitute_Reraise(self, params) ==
    LET variable_substitutions == SubstituteVariables(self.variables, params)
    IN  IF variable_substitutions.raised # None
        THEN IF variable_substitutions.raised = Some(VariableError) /\ self.alternative # None
             THEN TemplateSubstitute(self.alternative[1], params)
             ELSE variable_substitutions
        ELSE SubstituteAllComponents(self, params, variable_substitutions.value)

\* Mutant: the alternative is not tried
TemplateSubstitute_NoAlternative(self, params) ==
    LET variable_substitutions == SubstituteVariables(self.variables, params)
    IN  IF variable_substitutions.raised = Some(VariableError)
        THEN [value |-> <<>>, raised |-> None]
        ELSE IF variable_substitutions.raised # None
        THEN variable_substitutions
        ELSE SubstituteAllComponents(self, params, variable_substitutions.value)

\* Mutant: the direct variables of the nested sections are required as well
TemplateSubstitute_NestedRequired(self, params) ==
    LET variable_substitutions == SubstituteVariables(self.variables, params)
        nested == [i \in 1..Len(self.templates) |-> SubstituteVariables(self.templates[i].variables, params)]
    IN  IF variable_substitutions.raised = Some(VariableError) \/ \E i \in 1..Len(nested) : nested[i].raised = Some(VariableError)
        THEN IF self.alternative # None
             THEN TemplateSubstitute(self.alternative[1], params)
             ELSE [value |-> <<>>, raised |-> None]
        ELSE IF variable_substitutions.raised # None
        THEN variable_substitutions
        ELSE SubstituteAllComponents(self, params, variable_substitutions.value)

TemplateSubstitute(self, params) ==
    LET variable_substitutions == SubstituteVariables(self.variables, params)
    IN  IF variable_substitutions.raised = Some(VariableError)
        THEN IF self.alternative # None
             THEN TemplateSubstitute(self.alternative[1], params)
             ELSE [value |-> <<>>, raised |-> None]
        ELSE IF variable_substitutions.raised # None
        THEN variable_substitutions
        ELSE SubstituteAllComponents(self, params, variable_substitutions.value)

(***************************************************************************)
(* prompt_components/template.py: variable_keys                            *)
(***************************************************************************)
RequiredAndOptionalVariables(required, optional) == [required |-> required, optional |-> optional]

RECURSIVE variable_keys(_)
\* Mutant: the entries of the alternatives are left out
variable_keys_NoAlternative(self) ==
    LET required == {self.variables[i].key[1] : i \in 1..Len(self.variables)}
        optional == UNION {
            UNION {child.required \cup child.optional
                   : child \in {variable_keys(self.templates[i])[j] : j \in 1..Len(variable_keys(self.templates[i]))}}
            : i \in 1..Len(self.templates)}
    IN  <<RequiredAndOptionalVariables(required, optional)>>

\* Mutant: only the required keys of the nested sections become optional
variable_keys_ChildRequiredOnly(self) ==
    LET required == {self.variables[i].key[1] : i \in 1..Len(self.variables)}
        optional == UNION {
            UNION {child.required
                   : child \in {variable_keys(self.templates[i])[j] : j \in 1..Len(variable_keys(self.templates[i]))}}
            : i \in 1..Len(self.templates)}
        result == <<RequiredAndOptionalVariables(required, optional)>>
    IN  IF self.alternative # None
        THEN result \o variable_keys(self.alternative[1])
        ELSE result

variable_keys(self) ==
    LET required == {self.variables[i].key[1] : i \in 1..Len(self.variables)}
        optional == UNION {
            UNION {child.required \cup child.optional
                   : child \in {variable_keys(self.templates[i])[j] : j \in 1..Len(variable_keys(self.templates[i]))}}
            : i \in 1..Len(self.templates)}
        result == <<RequiredAndOptionalVariables(required, optional)>>
    IN  IF self.alternative # None
        THEN result \o variable_keys(self.alternative[1])
        ELSE result

(***************************************************************************)
(* prompt_api.py                                                           *)
(***************************************************************************)
RECURSIVE ValidateParamsFrom_KeysNotChecked(_, _)
\* Mutant: the type of the keys is not checked
ValidateParamsFrom_KeysNotChecked(params, i) ==
    IF i > Len(params) THEN Ok(params)
    ELSE LET key == params[i].key
             value == params[i].value
         IN  IF value.t = "str"
             THEN ValidateParamsFrom_KeysNotChecked(params, i + 1)
             ELSE IF value.t \in {"int", "float"}
             THEN ValidateParamsFrom_KeysNotChecked([params EXCEPT ![i].value = PyStr(StrOfNumber(value))], i + 1)
             ELSE Raise(params, ParametersTypeError("Key %s has a non-string value", key))

RECURSIVE ValidateParamsFrom(_, _)
\* The loop of _validate_params from item i on; params[key] = str(value) writes the caller's dict
ValidateParamsFrom(params, i) ==
    IF i > Len(params) THEN Ok(params)
    ELSE LET key == params[i].key
             value == params[i].value
         IN  IF key.t # "str"
             THEN Raise(params, ParametersTypeError("Key %s is not a string", key))
             ELSE IF value.t = "str"
             THEN ValidateParamsFrom(params, i + 1)
             ELSE IF value.t \in {"int", "float"}
             THEN ValidateParamsFrom([params EXCEPT ![i].value = PyStr(StrOfNumber(value))], i + 1)
             ELSE Raise(params, ParametersTypeError("Key %s has a non-string value", key))

validate_params(params) == ValidateParamsFrom(params, 1)

\* str.isspace for the characters of the model's texts
IsSpace(char) == char \in {" ", "\t", "\n", "\r"}

RECURSIVE Split(_, _)
\* result.split(): the maximal runs of non-whitespace characters; word is the run being read
Split(chars, word) ==
    IF chars = <<>> THEN IF word = <<>> THEN <<>> ELSE <<word>>
    ELSE IF IsSpace(Head(chars))
    THEN IF word = <<>> THEN Split(Tail(chars), <<>>) ELSE <<word>> \o Split(Tail(chars), <<>>)
    ELSE Split(Tail(chars), Append(word, Head(chars)))

RECURSIVE JoinWith(_, _)
\* sep.join(words)
JoinWith(sep, words) ==
    IF words = <<>> THEN <<>>
    ELSE IF Len(words) = 1 THEN words[1]
    ELSE words[1] \o sep \o JoinWith(sep, Tail(words))

\* Mutant: " ".join(result.split(" ")), which splits at single spaces and joins the same pieces
ReduceWhitespace_SplitOnSpace(result) == result

\* " ".join(result.split())
ReduceWhitespace(result) == JoinWith(<<" ">>, Split(result, <<>>))

\* Prompt(template_text): _init_template builds the Template
PromptInitCall(text) == TemplateInit(None, Some(text))

\* Prompt.substitute: value is the returned str, params the caller's dict after the call
PromptSubstituteCall(self, params, postprocess_whitespace_reduction) ==
    LET validated == validate_params(params)
        result == TemplateSubstitute(self.template, validated.obj)
    IN  IF validated.raised # None
        THEN [value |-> <<>>, raised |-> validated.raised, params |-> validated.obj]
        ELSE IF result.raised # None
        THEN [value |-> <<>>, raised |-> result.raised, params |-> validated.obj]
        ELSE [value |-> IF postprocess_whitespace_reduction THEN ReduceWhitespace(result.value) ELSE result.value,
              raised |-> None, params |-> validated.obj]

(***************************************************************************)
(* The inputs: template texts and parameter dicts                          *)
(***************************************************************************)
\* The pieces a template text is written with
Tokens == { <<"[">>, <<"]">>, <<"|">>, <<"t">>,
            <<"{", "a", "}">>, <<"{", "~", "a", "}">>, <<"{", "b", "=", "x", "}">> }

Item(key, value) == [key |-> key, value |-> value]

\* The values a caller gives to key a and to key b: strings, and an int for b
ValuesOfA == {PyStr(<<>>), PyStr(<<"y", " ", " ", "y">>)}

ValuesOfB == {PyStr(<<"x">>), PyInt(7)}

\* The dicts a caller passes; the last one has a value that is no str, int or float
InputParams ==
    {<<>>}
    \cup {<<Item(PyStr(<<"a">>), va)>> : va \in ValuesOfA}
    \cup {<<Item(PyStr(<<"b">>), vb)>> : vb \in ValuesOfB}
    \cup {<<Item(PyStr(<<"a">>), va), Item(PyStr(<<"b">>), vb)>> : va \in ValuesOfA, vb \in ValuesOfB}
    \cup {<<Item(PyStr(<<"b">>), PyNone)>>}

(***************************************************************************)
(* The state machine: one Prompt and the latest call made on it            *)
(***************************************************************************)
\* frames holds the activations of _parse_and_validate while a text is parsed step by step
VARIABLES template_text, prompt, call, frames

vars == <<template_text, prompt, call, frames>>

NoCall == [op |-> "none", params_before |-> <<>>, params |-> <<>>, postprocess |-> FALSE, returned |-> None, raised |-> None]

\* The template text is any text of at most MaxTokens tokens
Init ==
    /\ \E n \in 0..MaxTokens : \E tokens \in [1..n -> Tokens] : template_text = Join(tokens)
    /\ prompt = None
    /\ call = NoCall
    /\ frames = <<>>

\* prompt = Prompt(template_text)
PromptInit ==
    /\ call.op = "none"
    /\ LET r == PromptInitCall(template_text)
       IN  /\ prompt' = IF r.raised = None
                        THEN Some([template_text |-> template_text, template |-> r.obj, variables |-> None])
                        ELSE None
           /\ call' = [NoCall EXCEPT !.op = "init", !.raised = r.raised]
    /\ UNCHANGED <<template_text, frames>>

\* Mutant: the components are popped from the tree of the Prompt while they are substituted
PromptSubstitute_PopsComponents(params, postprocess) ==
    /\ prompt # None
    /\ LET r == PromptSubstituteCall(prompt[1], params, postprocess)
       IN  /\ call' = [op |-> "substitute", params_before |-> params, params |-> r.params,
                       postprocess |-> postprocess,
                       returned |-> IF r.raised = None THEN Some(r.value) ELSE None,
                       raised |-> r.raised]
           /\ prompt' = IF r.raised = None
                        THEN Some([prompt[1] EXCEPT !.template.components = <<>>])
                        ELSE prompt
    /\ UNCHANGED <<template_text, frames>>

\* prompt.substitute(params, postprocess_whitespace_reduction)
PromptSubstitute(params, postprocess) ==
    /\ prompt # None
    /\ LET r == PromptSubstituteCall(prompt[1], params, postprocess)
       IN  call' = [op |-> "substitute", params_before |-> params, params |-> r.params,
                    postprocess |-> postprocess,
                    returned |-> IF r.raised = None THEN Some(r.value) ELSE None,
                    raised |-> r.raised]
    /\ UNCHANGED <<template_text, prompt, frames>>

\* Mutant: the traversal of the alternatives unlinks them from the tree
PromptVariables_UnlinksAlternative ==
    /\ prompt # None
    /\ LET value == IF prompt[1].variables = None
                    THEN variable_keys(prompt[1].template)
                    ELSE prompt[1].variables[1]
       IN  /\ prompt' = Some([prompt[1] EXCEPT !.variables = Some(value), !.template.alternative = None])
           /\ call' = [NoCall EXCEPT !.op = "variables", !.returned = Some(value)]
    /\ UNCHANGED <<template_text, frames>>

\* prompt.variables: a cached_property, computed at the first access
PromptVariables ==
    /\ prompt # None
    /\ LET value == IF prompt[1].variables = None
                    THEN variable_keys(prompt[1].template)
                    ELSE prompt[1].variables[1]
       IN  /\ prompt' = Some([prompt[1] EXCEPT !.variables = Some(value)])
           /\ call' = [NoCall EXCEPT !.op = "variables", !.returned = Some(value)]
    /\ UNCHANGED <<template_text, frames>>

\* What a call returns is a function of the template text and of the call's
\* arguments: Spec constructs a Prompt and makes one call on it.
Substitute == call.op = "init" /\ \E params \in InputParams, postprocess \in BOOLEAN : PromptSubstitute(params, postprocess)

Variables == call.op = "init" /\ PromptVariables

Next == PromptInit \/ Substitute \/ Variables

Spec == Init /\ [][Next]_vars

(***************************************************************************)
(* Vocabulary of the properties: blocks of the parsed tree, satisfaction   *)
(* of a variable, and the text a block is expected to emit.  None of it    *)
(* uses the substitution code except for the output of a child section.    *)
(***************************************************************************)
RECURSIVE AllBlocks(_)
\* A block, its nested sections and its alternatives, at every depth
AllBlocks(t) ==
    {t} \cup UNION {AllBlocks(t.templates[i]) : i \in 1..Len(t.templates)}
        \cup (IF t.alternative # None THEN AllBlocks(t.alternative[1]) ELSE {})

\* The blocks of the constructed Prompt
Blocks == AllBlocks(prompt[1].template)

\* A call of substitute whose parameters passed validation has returned or raised
Substituted == call.op = "substitute" /\ \A i \in 1..Len(call.params) : call.params[i].key.t = "str" /\ call.params[i].value.t = "str"

HasKey(params, key) == \E i \in 1..Len(params) : params[i].key = PyStr(key)

Lookup(params, key) == params[CHOOSE i \in 1..Len(params) : params[i].key = PyStr(key)].value.s

\* The key is present with a non-empty value that equals the required value, if there is one
Satisfied(v, params) ==
    /\ HasKey(params, v.key[1])
    /\ Lookup(params, v.key[1]) # <<>>
    /\ v.required_value # None => Lookup(params, v.key[1]) = v.required_value[1]

AllSatisfied(b, params) == \A i \in 1..Len(b.variables) : Satisfied(b.variables[i], params)

Output(b, params) == TemplateSubstitute(b, params).value

\* What a child of a satisfied block stands for in the block's output
ChildOutput(c, params) ==
    IF c.type = "Variable"
    THEN IF c.muted THEN <<>> ELSE Lookup(params, c.key[1])
    ELSE Output(c, params)

RECURSIVE Interleaved(_, _, _, _)
\* Left to right from raw offset pos: literal segment, child k, literal segment, ...
Interleaved(b, params, k, pos) ==
    IF k > Len(b.components) THEN SliceFrom(b.input_text[1], pos)
    ELSE Slice(b.input_text[1], pos, b.components[k].start_index[1])
         \o ChildOutput(b.components[k], params)
         \o Interleaved(b, params, k + 1, b.components[k].end_index[1])

Reconstructed(b, params) == Interleaved(b, params, 1, 0)

\* What a block with an unsatisfied direct variable emits
Fallback(b, params) == IF b.alternative # None THEN Output(b.alternative[1], params) ELSE <<>>

RECURSIVE Chain(_)
\* A block followed by its alternatives, in source order
Chain(b) == IF b.alternative = None THEN <<b>> ELSE <<b>> \o Chain(b.alternative[1])

(***************************************************************************)
(* C1: substitute with string-to-string parameters returns a string and    *)
(* never raises; no block lets the unsatisfied-variable signal of one of   *)
(* its variables out, at any depth or in any alternative.                  *)
(***************************************************************************)
C1_SubstituteNeverRaises ==
    Substituted =>
        /\ call.raised = None
        /\ call.returned # None
        /\ \A i \in 1..Len(call.returned[1]) : call.returned[1][i] \in STRING
        /\ \A b \in Blocks : TemplateSubstitute(b, call.params).raised = None

\* a block is unsatisfied and so is a section nested in its alternative, and the call returned
C1_Witness ==
    /\ Substituted
    /\ call.returned # None
    /\ \E b \in Blocks :
          /\ ~AllSatisfied(b, call.params)
          /\ b.alternative # None
          /\ AllSatisfied(b.alternative[1], call.params)
          /\ \E i \in 1..Len(b.alternative[1].templates) : ~AllSatisfied(b.alternative[1].templates[i], call.params)

(***************************************************************************)
(* C2: all-or-nothing.  A block with an unsatisfied direct variable and no *)
(* alternative emits the empty string, whatever literal text, satisfied    *)
(* variables and nested sections it has; a block whose direct variables    *)
(* are all satisfied emits its fully substituted text.                     *)
(***************************************************************************)
C2_AllOrNothing ==
    Substituted =>
        \A b \in Blocks :
            /\ (~AllSatisfied(b, call.params) /\ b.alternative = None) => Output(b, call.params) = <<>>
            /\ AllSatisfied(b, call.params) => Output(b, call.params) = Reconstructed(b, call.params)

\* a block without alternative that has a satisfied variable with a value to show, a nested
\* section with output and an unsatisfied variable
C2_Witness ==
    /\ Substituted
    /\ \E b \in Blocks :
          /\ b.alternative = None
          /\ \E i \in 1..Len(b.variables) : ~Satisfied(b.variables[i], call.params)
          /\ \E i \in 1..Len(b.variables) : Satisfied(b.variables[i], call.params) /\ ~b.variables[i].muted
          /\ \E i \in 1..Len(b.templates) : Output(b.templates[i], call.params) # <<>>
          /\ Output(b, call.params) = <<>>

(***************************************************************************)
(* C3: fallback chain.  A block emits the reconstructed text of the first  *)
(* block of its alternative chain whose direct variables are all           *)
(* satisfied, and the empty string if there is none; alternatives after    *)
(* that block are not used.                                                *)
(***************************************************************************)
C3_FallbackChain ==
    Substituted =>
        \A b \in Blocks :
            LET chain == Chain(b)
                ok == {i \in 1..Len(chain) : AllSatisfied(chain[i], call.params)}
            IN  Output(b, call.params) =
                    IF ok = {} THEN <<>>
                    ELSE Reconstructed(chain[CHOOSE i \in ok : \A j \in ok : i <= j], call.params)

\* the first block of a chain is unsatisfied, the second is satisfied and used, and a third,
\* satisfied too and with another text, is not
C3_Witness ==
    /\ Substituted
    /\ \E b \in Blocks :
          LET chain == Chain(b)
          IN  /\ Len(chain) >= 3
              /\ ~AllSatisfied(chain[1], call.params)
              /\ AllSatisfied(chain[2], call.params)
              /\ AllSatisfied(chain[3], call.params)
              /\ Reconstructed(chain[3], call.params) # Reconstructed(chain[2], call.params)
              /\ Output(b, call.params) = Reconstructed(chain[2], call.params)

(***************************************************************************)
(* C4: a block falls back exactly when one of its own direct variables is  *)
(* unsatisfied.  With all of them satisfied it emits its own text, in      *)
(* which an unsatisfied nested section stands as that section's fallback   *)
(* (its alternative's text or nothing), and its alternative is not used,   *)
(* even when the text is empty; with one unsatisfied it emits its          *)
(* alternative's output or nothing.                                        *)
(***************************************************************************)
C4_OnlyDirectVariablesDecide ==
    Substituted =>
        \A b \in Blocks :
            /\ AllSatisfied(b, call.params) =>
                  /\ Output(b, call.params) = Reconstructed(b, call.params)
                  /\ \A i \in 1..Len(b.templates) :
                        ~AllSatisfied(b.templates[i], call.params) =>
                            ChildOutput(b.templates[i], call.params) = Fallback(b.templates[i], call.params)
            /\ ~AllSatisfied(b, call.params) => Output(b, call.params) = Fallback(b, call.params)

\* a block with satisfied direct variables holds an unsatisfied nested section, emits the
\* empty text, and has an alternative that would have emitted something
C4_Witness ==
    /\ Substituted
    /\ \E b \in Blocks :
          /\ AllSatisfied(b, call.params)
          /\ \E i \in 1..Len(b.templates) : ~AllSatisfied(b.templates[i], call.params)
          /\ b.alternative # None
          /\ Output(b.alternative[1], call.params) # <<>>
          /\ Output(b, call.params) = <<>>

(***************************************************************************)
(* C5: a variable is satisfied exactly when its key is in params with a    *)
(* non-empty value that, when the variable has a required value, equals    *)
(* it; otherwise Variable.substitute gives the unsatisfied signal.         *)
(***************************************************************************)
C5_SatisfiedIff ==
    Substituted =>
        \A b \in Blocks : \A i \in 1..Len(b.variables) :
            LET v == b.variables[i]
                r == VariableSubstitute(v, call.params)
                present == \E j \in 1..Len(call.params) : call.params[j].key = PyStr(v.key[1])
                value == DictGet(call.params, PyStr(v.key[1]), PyStr(<<>>)).s
            IN  /\ r.raised = None <=> (present /\ value # <<>> /\ (v.required_value # None => value = v.required_value[1]))
                /\ r.raised # None => r.raised = Some(VariableError)
                /\ Satisfied(v, call.params) <=> r.raised = None

\* one variable's key is mapped to the empty string, another's to a value that is not its
\* required value, and both are unsatisfied
C5_Witness ==
    /\ Substituted
    /\ \E b \in Blocks : \E i, j \in 1..Len(b.variables) :
          /\ HasKey(call.params, b.variables[i].key[1])
          /\ Lookup(call.params, b.variables[i].key[1]) = <<>>
          /\ VariableSubstitute(b.variables[i], call.params).raised = Some(VariableError)
          /\ b.variables[j].required_value # None
          /\ HasKey(call.params, b.variables[j].key[1])
          /\ Lookup(call.params, b.variables[j].key[1]) \notin {<<>>, b.variables[j].required_value[1]}
          /\ VariableSubstitute(b.variables[j], call.params).raised = Some(VariableError)

C7_Reconstruction ==
    Substituted =>
        \A b \in Blocks :
            AllSatisfied(b, call.params) =>
                /\ Output(b, call.params) = Interleaved(b, call.params, 1, 0)
                /\ Len(Output(b, call.params)) =
                      Len(b.input_text[1])
                      - (LET spans[k \in 0..Len(b.components)] ==
                                 IF k = 0 THEN 0
                                 ELSE spans[k - 1] + b.components[k].end_index[1] - b.components[k].start_index[1]
                                      - Len(ChildOutput(b.components[k], call.params))
                         IN  spans[Len(b.components)])

\* a block with two variables of different keys, the first put in with more characters than
\* its span and the second with fewer
C7_Witness ==
    /\ Substituted
    /\ \E b \in Blocks :
          /\ AllSatisfied(b, call.params)
          /\ \E i, j \in 1..Len(b.components) :
                /\ i < j
                /\ b.components[i].type = "Variable"
                /\ b.components[j].type = "Variable"
                /\ b.components[i].key # b.components[j].key
                /\ ChildOutput(b.components[i], call.params) # ChildOutput(b.components[j], call.params)
                /\ Len(ChildOutput(b.components[i], call.params)) > b.components[i].end_index[1] - b.components[i].start_index[1]
                /\ Len(ChildOutput(b.components[j], call.params)) < b.components[j].end_index[1] - b.components[j].start_index[1]

(***************************************************************************)
(* C8: a valid template without variables and separators substitutes,      *)
(* for any params and without whitespace postprocessing, to its source     *)
(* text with every [ and ] removed.                                        *)
(***************************************************************************)
WithoutBrackets(text) == SelectSeq(text, LAMBDA char : char \notin {"[", "]"})

C8_BracketsRemoved ==
    (/\ Substituted
     /\ ~call.postprocess
     /\ \A i \in 1..Len(template_text) : template_text[i] \notin {"{", "|"})
    => call.returned = Some(WithoutBrackets(template_text))

\* a section nested in a section, substituted with parameters
C8_Witness ==
    /\ Substituted
    /\ ~call.postprocess
    /\ call.params # <<>>
    /\ \A i \in 1..Len(template_text) : template_text[i] \notin {"{", "|"}
    /\ \E i \in 1..(Len(template_text) - 1) : template_text[i] = "[" /\ template_text[i + 1] = "["
    /\ call.returned # None

(***************************************************************************)
(* The source text read directly: nesting depth, top-level alternatives    *)
(* and the keys written in it                                              *)
(***************************************************************************)
RECURSIVE SplitTopLevel(_, _, _)
\* The spans of text between the separators that lie outside every [...] section
SplitTopLevel(text, depth, span) ==
    IF text = <<>> THEN <<span>>
    ELSE IF Head(text) = "|" /\ depth = 0 THEN <<span>> \o SplitTopLevel(Tail(text), 0, <<>>)
    ELSE SplitTopLevel(Tail(text),
                       IF Head(text) = "[" THEN depth + 1 ELSE IF Head(text) = "]" THEN depth - 1 ELSE depth,
                       Append(span, Head(text)))

RECURSIVE TopLevelSeparators(_, _)
\* The number of separators outside every [...] section
TopLevelSeparators(text, depth) ==
    IF text = <<>> THEN 0
    ELSE IF Head(text) = "[" THEN TopLevelSeparators(Tail(text), depth + 1)
    ELSE IF Head(text) = "]" THEN TopLevelSeparators(Tail(text), depth - 1)
    ELSE (IF Head(text) = "|" /\ depth = 0 THEN 1 ELSE 0) + TopLevelSeparators(Tail(text), depth)

RECURSIVE KeyUpTo(_)
\* The key a variable's source starts with, the { and the ~ taken off
KeyUpTo(text) == IF text = <<>> \/ Head(text) \in {"=", "}"} THEN <<>> ELSE <<Head(text)>> \o KeyUpTo(Tail(text))

RECURSIVE KeysWritten(_, _, _)
\* The keys of the variables written in text outside every section (direct) or inside one
KeysWritten(text, depth, direct) ==
    IF text = <<>> THEN {}
    ELSE IF Head(text) = "{"
    THEN (IF (depth = 0) = direct
          THEN {KeyUpTo(IF Len(text) > 1 /\ text[2] = "~" THEN Tail(Tail(text)) ELSE Tail(text))}
          ELSE {})
         \cup KeysWritten(Tail(text), depth, direct)
    ELSE KeysWritten(Tail(text),
                     IF Head(text) = "[" THEN depth + 1 ELSE IF Head(text) = "]" THEN depth - 1 ELSE depth,
                     direct)

(***************************************************************************)
(* C9: variables has one entry per top-level alternative: its length is    *)
(* the number of separators outside every [...] section plus one.          *)
(***************************************************************************)
C9_OneEntryPerAlternative ==
    call.op = "variables" => Len(call.returned[1]) = TopLevelSeparators(template_text, 0) + 1

\* the template has a separator inside a section, which adds no entry
C9_Witness ==
    /\ call.op = "variables"
    /\ Len(SelectSeq(template_text, LAMBDA char : char = "|")) > TopLevelSeparators(template_text, 0)
    /\ Len(call.returned[1]) = 1

(***************************************************************************)
(* C10: entry k of variables has as required the keys of the variables     *)
(* written directly in the k-th top-level alternative and as optional the  *)
(* keys of all the variables written inside its sections, at any depth and *)
(* in any alternative of a section; a key may be in both.                  *)
(***************************************************************************)
C10_RequiredAndOptional ==
    call.op = "variables" =>
        LET alternatives == SplitTopLevel(template_text, 0, <<>>)
        IN  /\ DOMAIN call.returned[1] = DOMAIN alternatives
            /\ \A k \in DOMAIN alternatives :
                  /\ call.returned[1][k].required = KeysWritten(alternatives[k], 0, TRUE)
                  /\ call.returned[1][k].optional = KeysWritten(alternatives[k], 0, FALSE)

\* a key is required and optional in the same entry
C10_Witness ==
    /\ call.op = "variables"
    /\ \E k \in DOMAIN call.returned[1] : call.returned[1][k].required \cap call.returned[1][k].optional # {}

(***************************************************************************)
(* C11: substitute returns a non-empty string only if some entry of        *)
(* variables(T) has every key of its required set present in params with a *)
(* non-empty value; if no entry has all its required keys provided, the    *)
(* result is the empty string.                                             *)
(***************************************************************************)
\* The caller gave the key a value other than the empty string
Provided(params, key) == \E i \in 1..Len(params) : params[i].key = PyStr(key) /\ params[i].value # PyStr(<<>>)

EntryProvided(entry, params) == \A key \in entry.required : Provided(params, key)

C11_NonEmptyOnlyIfEntryProvided ==
    (call.op = "substitute" /\ call.raised = None) =>
        LET entries == variable_keys(prompt[1].template)
        IN  call.returned[1] # <<>> => \E k \in DOMAIN entries : EntryProvided(entries[k], call.params_before)

\* the output is not empty and comes from a later entry: the first entry lacks a required key
C11_Witness ==
    /\ call.op = "substitute"
    /\ call.raised = None
    /\ call.returned[1] # <<>>
    /\ LET entries == variable_keys(prompt[1].template)
       IN  /\ Len(entries) > 1
           /\ ~EntryProvided(entries[1], call.params_before)
           /\ entries[2].required # {}

(***************************************************************************)
(* Templates written character by character: every text of at most         *)
(* MaxChars characters is given to Prompt, and a Prompt that was built is   *)
(* substituted once with a value for key a.                                 *)
(***************************************************************************)
MaxChars == 5

\* The special characters, a key character and a character no key may hold
Alphabet == {"{", "}", "[", "]", "|", "~", "=", "a", "."}

\* The values a caller gives to key a
CharValues == {<<char>> : char \in Alphabet} \cup {<<"a", "a">>, <<"=", "~">>}

CharParams == {<<>>} \cup {<<Item(PyStr(<<"a">>), PyStr(value))>> : value \in CharValues}

InitChars ==
    /\ \E n \in 0..MaxChars : \E chars \in [1..n -> Alphabet] : template_text = SubSeq(chars, 1, n)
    /\ prompt = None
    /\ call = NoCall
    /\ frames = <<>>

SubstituteChars == call.op = "init" /\ \E params \in CharParams : PromptSubstitute(params, FALSE)

NextChars == PromptInit \/ SubstituteChars

SpecChars == InitChars /\ [][NextChars]_vars

\* Prompt(template_text) raised the syntax error
SyntaxErrorRaised == call.op = "init" /\ call.raised # None /\ call.raised[1].type = "PromptSyntaxError"

Rejected(text) == template_text = text /\ call.op = "init" => SyntaxErrorRaised

(***************************************************************************)
(* C12: every syntax error raised while parsing a malformed template       *)
(* carries the text being scanned and a valid 1-based character offset: an *)
(* integer from 1 to the length of that text.  In particular {} , {=a} ,   *)
(* {~~a} , { , [ , the empty text and [] are each rejected with one.       *)
(***************************************************************************)
C12_SyntaxErrorCarriesOffset ==
    /\ SyntaxErrorRaised =>
          /\ call.raised[1].details # None
          /\ call.raised[1].details[1].offset \in 1..Len(call.raised[1].details[1].text)
    /\ \A text \in {<<"{", "}">>, <<"{", "=", "a", "}">>, <<"{", "~", "~", "a", "}">>, <<"{">>, <<"[">>, <<>>, <<"[", "]">>} :
          Rejected(text)

\* The template is {a=v} for a non-empty v without the closing character
IsRequiredValueTemplate ==
    /\ Len(template_text) >= 5
    /\ SubSeq(template_text, 1, 3) = <<"{", "a", "=">>
    /\ \A i \in 1..Len(template_text) : template_text[i] = "}" <=> i = Len(template_text)

\* the v of {a=v}
RequiredValueWritten == SubSeq(template_text, 4, Len(template_text) - 1)

\* The call substituted {a=v}: it emits the value of a when a is v, and nothing otherwise
SatisfiedExactlyWhenEqual ==
    call.op = "substitute" =>
        /\ call.raised = None
        /\ call.returned[1] = IF call.params_before = <<Item(PyStr(<<"a">>), PyStr(RequiredValueWritten))>>
                              THEN RequiredValueWritten
                              ELSE <<>>

(***************************************************************************)
(* C13 as stated: for every non-empty v without } the template {a=v}       *)
(* parses and is satisfied exactly when params[a] equals v, also when v    *)
(* contains [ ] | { ~ or = .                                               *)
(***************************************************************************)
C13_Original ==
    IsRequiredValueTemplate =>
        /\ call.op = "init" => call.raised = None
        /\ SatisfiedExactlyWhenEqual

(***************************************************************************)
(* C13 amended: for every non-empty v without } [ ] | and { the template   *)
(* {a=v} parses and is satisfied exactly when params[a] equals v, also     *)
(* when v contains ~ or = ; a v that contains [ ] | or { is rejected with  *)
(* a syntax error.                                                         *)
(***************************************************************************)
C13_RequiredValueText ==
    IsRequiredValueTemplate =>
        IF \E i \in 1..Len(RequiredValueWritten) : RequiredValueWritten[i] \in {"[", "]", "|", "{"}
        THEN Rejected(template_text) /\ call.op # "substitute"
        ELSE /\ call.op = "init" => call.raised = None
             /\ SatisfiedExactlyWhenEqual

\* a required value with an option character matched the value of a and was emitted
C13_Witness ==
    /\ IsRequiredValueTemplate
    /\ \E i \in 1..Len(RequiredValueWritten) : RequiredValueWritten[i] \in {"~", "="}
    /\ call.op = "substitute"
    /\ call.returned = Some(RequiredValueWritten)

\* The template is one variable: { , characters that open or close nothing, }
IsVariableTemplate ==
    /\ Len(template_text) >= 2
    /\ template_text[1] = "{"
    /\ template_text[Len(template_text)] = "}"
    /\ \A i \in 2..(Len(template_text) - 1) : template_text[i] \notin {"{", "}", "[", "]", "|"}

\* what is written between { and }
VariableBody == SubSeq(template_text, 2, Len(template_text) - 1)

\* the body without the mute marker that follows { , if there is one
UnmutedBody == IF VariableBody # <<>> /\ Head(VariableBody) = "~" THEN Tail(VariableBody) ELSE VariableBody

\* The key part: from after { and its mute marker up to = or }
KeyPart == KeyUpTo(UnmutedBody)

HasRequiredValuePart == Len(KeyPart) < Len(UnmutedBody)

RequiredValuePart == SubSeq(UnmutedBody, Len(KeyPart) + 2, Len(UnmutedBody))

IsKey(key) == key # <<>> /\ \A i \in 1..Len(key) : key[i] \in sc_VARIABLE_NAME_SAFE

\* The variables of every block of the constructed Prompt
AllVariables == UNION {{b.variables[i] : i \in 1..Len(b.variables)} : b \in Blocks}

(***************************************************************************)
(* C14: a variable key is a non-empty string of key characters.  A         *)
(* variable whose key part is empty ( {} , {~} , {=a} ) or holds another   *)
(* character is rejected with a syntax error; a variable whose key part    *)
(* holds key characters only is accepted with that key; every variable of  *)
(* a parsed tree has such a key.                                           *)
(***************************************************************************)
C14_KeyCharacters ==
    /\ prompt # None => \A v \in AllVariables : v.key # None /\ IsKey(v.key[1])
    /\ (IsVariableTemplate /\ ~IsKey(KeyPart)) => Rejected(template_text) /\ prompt = None
    /\ (IsVariableTemplate /\ IsKey(KeyPart) /\ (HasRequiredValuePart => RequiredValuePart # <<>>) /\ call.op = "init") =>
          /\ call.raised = None
          /\ prompt[1].template.variables[1].key = Some(KeyPart)

\* a key part with a character that is no key character, after a key character, was rejected
C14_Witness ==
    /\ IsVariableTemplate
    /\ KeyPart # <<>>
    /\ IsKey(<<Head(KeyPart)>>)
    /\ ~IsKey(KeyPart)
    /\ SyntaxErrorRaised

\* How a parsed variable is written: { , ~ if muted, key, = and required value if any, }
VariableText(v) ==
    <<"{">> \o (IF v.muted THEN <<"~">> ELSE <<>>) \o v.key[1]
            \o (IF v.required_value # None THEN <<"=">> \o v.required_value[1] ELSE <<>>) \o <<"}">>

(***************************************************************************)
(* C15: the mute marker is accepted in the key part only right after { and *)
(* only once: at any other key position it is a syntax error.  After the   *)
(* first = every character up to } , further = and ~ included, belongs to  *)
(* the required value: a parsed variable is muted exactly when ~ follows   *)
(* its { , its key is what stands before the first = and its required      *)
(* value all that stands after it.                                         *)
(***************************************************************************)
C15_MuteMarker ==
    /\ (IsVariableTemplate /\ \E i \in 1..Len(KeyPart) : KeyPart[i] = "~") => Rejected(template_text) /\ prompt = None
    /\ (IsVariableTemplate /\ prompt # None) =>
          LET v == prompt[1].template.variables[1]
          IN  /\ v.muted <=> Head(VariableBody) = "~"
              /\ v.key = Some(KeyPart)
              /\ v.required_value = IF HasRequiredValuePart THEN Some(RequiredValuePart) ELSE None
    /\ prompt # None =>
          \A b \in Blocks : \A i \in 1..Len(b.variables) :
              LET v == b.variables[i]
              IN  Slice(b.input_text[1], v.start_index[1], v.end_index[1]) = VariableText(v)

\* a mute marker after = was taken as required-value text of a variable that is not muted
C15_Witness ==
    /\ IsVariableTemplate
    /\ prompt # None
    /\ HasRequiredValuePart
    /\ \E i \in 1..Len(RequiredValuePart) : RequiredValuePart[i] = "~"
    /\ ~prompt[1].template.variables[1].muted
    /\ prompt[1].template.variables[1].required_value = Some(RequiredValuePart)

(***************************************************************************)
(* C16: in every parsed tree every block (the root, every nested section   *)
(* and every alternative) has a non-empty input_text; the empty template,  *)
(* an empty section [] and an empty span before or after a separator       *)
(* ( | , a| , |a , [a|] ) are rejected with a syntax error.                *)
(***************************************************************************)
C16_NoEmptyBlock ==
    /\ prompt # None => \A b \in Blocks : b.input_text # None /\ b.input_text[1] # <<>>
    /\ \A text \in {<<>>, <<"[", "]">>, <<"a", "[", "]">>, <<"|">>, <<"a", "|">>, <<"|", "a">>, <<"[", "a", "|", "]">>, <<"[", "|", "a", "]">>} :
          Rejected(text) /\ (template_text = text => prompt = None)

\* a section with an empty span after its separator was rejected
C16_Witness ==
    /\ template_text = <<"[", "a", "|", "]">>
    /\ SyntaxErrorRaised
    /\ call.raised[1].message = "A template can not be empty"

(***************************************************************************)
(* One Prompt used again and again: after it is built, substitute and      *)
(* variables are called in any order, any number of times, with dicts that *)
(* also hold keys the template does not mention, keys that are no str and  *)
(* values that are no str, int or float.                                   *)
(***************************************************************************)
MaxCallTokens == 3

\* The dicts a caller passes to a Prompt in use
CallParams ==
    { <<>>,
      <<Item(PyStr(<<"a">>), PyStr(<<"y">>))>>,
      <<Item(PyStr(<<"a">>), PyFloat(2, 5))>>,
      <<Item(PyStr(<<"b">>), PyStr(<<"x">>)), Item(PyStr(<<"a">>), PyInt(7))>>,
      <<Item(PyStr(<<"y">>), PyNone)>>,
      <<Item(PyInt(7), PyStr(<<"x">>))>>,
      <<Item(PyStr(<<"a">>), PyInt(7)), Item(PyStr(<<"y">>), PyNone)>>,
      <<Item(PyStr(<<"a">>), PyStr(<<"y">>)), Item(PyInt(7), PyInt(7))>> }

InitCalls ==
    /\ \E n \in 0..MaxCallTokens : \E tokens \in [1..n -> Tokens] : template_text = Join(tokens)
    /\ prompt = None
    /\ call = NoCall
    /\ frames = <<>>

SubstituteCall == \E params \in CallParams, postprocess \in BOOLEAN : PromptSubstitute(params, postprocess)

VariablesCall == PromptVariables

NextCalls == PromptInit \/ SubstituteCall \/ VariablesCall

SpecCalls == InitCalls /\ [][NextCalls]_vars

\* The string form of the numbers the callers pass
StringForm(value) ==
    IF value = PyInt(7) THEN PyStr(<<"7">>)
    ELSE IF value = PyFloat(2, 5) THEN PyStr(<<"2", ".", "5">>)
    ELSE value

\* The dict with every number in its string form
StringForms(params) == [i \in 1..Len(params) |-> Item(params[i].key, StringForm(params[i].value))]

BadEntry(item) == item.key.t # "str" \/ item.value.t \notin {"str", "int", "float"}

\* The key is written in no variable of the template
Unmentioned(key) == \A i \in 1..(Len(template_text) - 1) : template_text[i] \in {"{", "~"} => <<template_text[i + 1]>> # key

(***************************************************************************)
(* C17: Prompt.substitute raises ParametersTypeError if and only if some   *)
(* key of params is not a string or some value is not a string, integer or *)
(* float, whether or not the template mentions the key, and then returns   *)
(* nothing; otherwise it returns what the core substitutes for the dict    *)
(* with every integer and float in its string form.                        *)
(***************************************************************************)
C17_ParametersTypeError ==
    call.op = "substitute" =>
        IF \E i \in 1..Len(call.params_before) : BadEntry(call.params_before[i])
        THEN /\ call.raised # None
             /\ call.raised[1].type = "ParametersTypeError"
             /\ call.returned = None
        ELSE /\ call.raised = None
             /\ LET result == Output(prompt[1].template, StringForms(call.params_before))
                IN  call.returned = Some(IF call.postprocess THEN ReduceWhitespace(result) ELSE result)

\* the call raised for a value of a key the template does not mention, the value of a being an int
C17_Witness ==
    /\ call.op = "substitute"
    /\ call.raised # None
    /\ call.raised[1].type = "ParametersTypeError"
    /\ \E i \in 1..Len(template_text) : template_text[i] = "{"
    /\ \E i \in 1..Len(call.params_before) :
          /\ BadEntry(call.params_before[i])
          /\ call.params_before[i].key.t = "str"
          /\ Unmentioned(call.params_before[i].key.s)
    /\ \E i \in 1..Len(call.params_before) : call.params_before[i].value.t = "int"

(***************************************************************************)
(* C18: after a call of Prompt.substitute, whether it returned a string or *)
(* raised ParametersTypeError, the caller's params dict holds the same     *)
(* keys and the same values as before the call.                            *)
(***************************************************************************)
C18_ParamsUnchanged ==
    call.op = "substitute" => call.params = call.params_before

\* The tree a Prompt built from the template text starts with
FreshTemplate == PromptInitCall(template_text).obj

MaxSpaceTokens == 5

SpaceTokens == { <<" ">>, <<"\n">>, <<"t">>, <<"{", "a", "}">>, <<"[">>, <<"]">> }

\* The dicts a caller passes: no a, a plain a, an a with whitespace around and inside, a blank a
SpaceParams ==
    { <<>>,
      <<Item(PyStr(<<"a">>), PyStr(<<"y">>))>>,
      <<Item(PyStr(<<"a">>), PyStr(<<" ", "y", "\n", " ", "y">>))>>,
      <<Item(PyStr(<<"a">>), PyStr(<<" ", " ">>))>> }

InitSpaces ==
    /\ \E n \in 0..MaxSpaceTokens : \E tokens \in [1..n -> SpaceTokens] : template_text = Join(tokens)
    /\ prompt = None
    /\ call = NoCall
    /\ frames = <<>>

SubstituteSpaces == call.op = "init" /\ \E params \in SpaceParams, postprocess \in BOOLEAN : PromptSubstitute(params, postprocess)

NextSpaces == PromptInit \/ SubstituteSpaces

SpecSpaces == InitSpaces /\ [][NextSpaces]_vars

Whitespace == {" ", "\t", "\n", "\r"}

RECURSIVE Collapsed(_, _, _)
\* The text read left to right: whitespace is dropped, and one space is written before a
\* character that follows whitespace unless it is the first character written
Collapsed(chars, pending, started) ==
    IF chars = <<>> THEN <<>>
    ELSE IF Head(chars) \in Whitespace THEN Collapsed(Tail(chars), started, started)
    ELSE (IF pending THEN <<" ">> ELSE <<>>) \o <<Head(chars)>> \o Collapsed(Tail(chars), FALSE, TRUE)

\* What the core substitutes for the params of the call
CoreResult == Output(prompt[1].template, call.params_before)

(***************************************************************************)
(* C21: with the whitespace postprocessing the returned string has no      *)
(* leading or trailing whitespace and every run of whitespace of the core  *)
(* result, from the template text or from a value, is one space; without   *)
(* it the core result is returned unchanged.                               *)
(***************************************************************************)
C21_WhitespaceReduction ==
    call.op = "substitute" =>
        LET r == call.returned[1]
        IN  /\ call.raised = None
            /\ ~call.postprocess => r = CoreResult
            /\ call.postprocess =>
                  /\ r # <<>> => r[1] \notin Whitespace /\ r[Len(r)] \notin Whitespace
                  /\ \A i \in 1..Len(r) : r[i] \in Whitespace => r[i] = " " /\ r[i + 1] \notin Whitespace
                  /\ r = Collapsed(CoreResult, FALSE, FALSE)

\* the core result starts with whitespace of the template and has a run that comes from
\* the template and the value together; the reduced result keeps two words apart
C21_Witness ==
    /\ call.op = "substitute"
    /\ call.postprocess
    /\ template_text[1] \in Whitespace
    /\ \E i \in 1..(Len(template_text) - 1) : template_text[i] \in Whitespace /\ template_text[i + 1] = "{"
    /\ call.params_before = <<Item(PyStr(<<"a">>), PyStr(<<" ", "y", "\n", " ", "y">>))>>
    /\ \E i \in 1..Len(call.returned[1]) : call.returned[1][i] = " "
    /\ Len(call.returned[1]) < Len(CoreResult) - 2

\* Prompt(template_text) raised the syntax error of a Variable that rejects a character
VariableRejectedCharacter ==
    /\ SyntaxErrorRaised
    /\ call.raised[1].message \in {"Char %s not allowed in variable key", "A mute symbol is only allowed in the beginning"}

\* sub is written in text from index start (1-based) on
WrittenAt(text, start, sub) == start + Len(sub) - 1 <= Len(text) /\ SubSeq(text, start, start + Len(sub) - 1) = sub

(***************************************************************************)
(* C22: when a Variable rejects a character (one outside the key alphabet, *)
(* or a misplaced mute marker) the text of the error is the source of the  *)
(* variable from { up to and including the offending character and the     *)
(* offset is the 1-based position of that character in this text, so       *)
(* 1 <= offset <= length of the text, muted or not.                        *)
(***************************************************************************)
C22_VariableErrorOffset ==
    VariableRejectedCharacter =>
        /\ call.raised[1].details # None
        /\ LET text == call.raised[1].details[1].text
               offset == call.raised[1].details[1].offset
           IN  /\ text # <<>> /\ text[1] = "{"
               /\ \E start \in 1..Len(template_text) : WrittenAt(template_text, start, text)
               /\ offset \in 1..Len(text)
               /\ offset = Len(text)
               /\ text[offset] \notin sc_VARIABLE_NAME_SAFE

\* The number of [ less the number of ] in text[lo..hi]
Excess(text, lo, hi) ==
    Cardinality({k \in lo..hi : text[k] = "["}) - Cardinality({k \in lo..hi : text[k] = "]"})

\* The pairs <<i, j>> of a [ outside every section and the ] that closes it
Sections(text) ==
    {<<i, j>> \in (1..Len(text)) \X (1..Len(text)) :
        /\ i < j
        /\ text[i] = "["
        /\ Excess(text, 1, i - 1) = 0
        /\ Excess(text, i, j) = 0
        /\ \A k \in i..(j - 1) : Excess(text, i, k) > 0}

\* The separators outside every section
Separators(text) == {i \in 1..Len(text) : text[i] = "|" /\ Excess(text, 1, i - 1) = 0}

RECURSIVE BlockTexts(_)
\* The texts of the blocks a text is made of: the text, what stands inside its sections
\* and what follows its first separator, and the blocks of these
BlockTexts(text) ==
    {text}
    \cup UNION {BlockTexts(SubSeq(text, ij[1] + 1, ij[2] - 1)) : ij \in Sections(text)}
    \cup (IF Separators(text) = {} THEN {}
          ELSE BlockTexts(SubSeq(text, (CHOOSE i \in Separators(text) : \A k \in Separators(text) : i <= k) + 1, Len(text))))

\* Prompt(template_text) raised a syntax error of the block scanner
ScannerRejected ==
    /\ SyntaxErrorRaised
    /\ call.raised[1].message \in {"Wrong special character '%s' position", "%s not closed"}

(***************************************************************************)
(* C23: when the block scanner rejects a text the error points into the    *)
(* text of the block being scanned, for a nested section or an alternative *)
(* its own raw text: for a special character in an illegal position the    *)
(* offset is the index of that character plus one, and for a section or    *)
(* variable still open at the end of the text the offset is the index plus *)
(* one of its opening delimiter.                                           *)
(***************************************************************************)
C23_ScannerErrorOffset ==
    ScannerRejected =>
        /\ call.raised[1].details # None
        /\ LET text == call.raised[1].details[1].text
               offset == call.raised[1].details[1].offset
               what == call.raised[1].args[1]
           IN  /\ text \in BlockTexts(template_text)
               /\ offset \in 1..Len(text)
               /\ call.raised[1].message = "Wrong special character '%s' position" =>
                     /\ what \in characters_to_check
                     /\ text[offset] = what
               /\ (call.raised[1].message = "%s not closed" /\ what = "Variable") =>
                     /\ text[offset] = "{"
                     /\ \A k \in (offset + 1)..Len(text) : text[k] # "}"
               /\ (call.raised[1].message = "%s not closed" /\ what = "Template") =>
                     /\ text[offset] = "["
                     /\ \A k \in offset..Len(text) : Excess(text, offset, k) > 0

\* a variable left open inside a section: the error points into the text of the section
C23_Witness ==
    /\ ScannerRejected
    /\ call.raised[1].message = "%s not closed"
    /\ call.raised[1].args = <<"Variable">>
    /\ call.raised[1].details[1].text # template_text
    /\ template_text[1] = "["
    /\ call.raised[1].details[1].offset > 1

\* The text of block b while the children after child k have been spliced in, right to left
PartlyRebuilt(b, params, k) ==
    SubstituteComponentsFrom([b EXCEPT !.components = SubSeq(b.components, k + 1, Len(b.components))],
                             params, Len(b.components) - k, b.input_text[1],
                             SubstituteVariables(b.variables, params).value).value

OpeningOf(c) == IF c.type = "Variable" THEN "{" ELSE "["

ClosingOf(c) == IF c.type = "Variable" THEN "}" ELSE "]"

(***************************************************************************)
(* C24: in every parsed block B the children are stored in increasing      *)
(* source order with disjoint spans: 0 <= start_index < end_index <=       *)
(* length of B.input_text, a child ends at or before the start of the next *)
(* one, B.input_text[start_index] is the opening delimiter of the child    *)
(* and B.input_text[end_index - 1] the closing delimiter that matches it,  *)
(* also when B.input_text was cut at a separator; so while the children    *)
(* are spliced in from right to left, the text up to the end of every      *)
(* child not yet processed is the raw text.                                *)
(***************************************************************************)
C24_ChildSpans ==
    prompt # None =>
        \A b \in Blocks :
            LET text == b.input_text[1]
                n == Len(b.components)
            IN  /\ \A k \in 1..n :
                      LET c == b.components[k]
                          start == c.start_index[1]
                          end == c.end_index[1]
                      IN  /\ 0 <= start /\ start < end /\ end <= Len(text)
                          /\ k < n => end <= b.components[k + 1].start_index[1]
                          /\ text[start + 1] = OpeningOf(c)
                          /\ text[end] = ClosingOf(c)
                          /\ c.type = "Variable" => \A j \in (start + 2)..(end - 1) : text[j] # "}"
                          /\ c.type = "Template" => <<start + 1, end>> \in Sections(text)
                /\ (call.op = "substitute" /\ Substituted /\ AllSatisfied(b, call.params)) =>
                      \A k \in 1..n :
                          Slice(PartlyRebuilt(b, call.params, k), 0, b.components[k].end_index[1])
                              = Slice(text, 0, b.components[k].end_index[1])

\* a block cut at a separator has two children, and the later one was replaced by a text of
\* another length
C24_Witness ==
    /\ call.op = "substitute"
    /\ Substituted
    /\ \E b \in Blocks :
          /\ b.alternative # None
          /\ Len(b.components) >= 2
          /\ AllSatisfied(b, call.params)
          /\ Len(PartlyRebuilt(b, call.params, 1)) # Len(b.input_text[1])

(***************************************************************************)
(* _parse_and_validate step by step.  frames is the call stack: one        *)
(* activation per block being parsed, the innermost last.  An activation   *)
(* holds the locals of the method, the text it iterates over, the index of *)
(* the next character, and where it stands: in its loop ("for"), inside    *)
(* close() of a section ("close") or inside the construction of its        *)
(* alternative ("alternative").                                            *)
(***************************************************************************)
MaxScanChars == 5

ScanAlphabet == {"[", "]", "|", "{", "}", "a"}

ScanParams == {<<>>, <<Item(PyStr(<<"a">>), PyStr(<<"y">>))>>}

InitScan ==
    /\ \E n \in 0..MaxScanChars : \E chars \in [1..n -> ScanAlphabet] : template_text = SubSeq(chars, 1, n)
    /\ prompt = None
    /\ call = NoCall
    /\ frames = <<>>

\* self._parse_and_validate() is entered: text = self.input_text, nothing open, depth stack empty
Activation(self) == [s |-> ScanStart(self), text |-> self.input_text[1], i |-> 0, pc |-> "for"]

\* Mutant: the alternative is built from the text that starts at the separator
AlternativeText_FromSeparator(text, i) == SliceFrom(text, i)

\* alternative_text = text[i + 1:]
AlternativeText(text, i) == SliceFrom(text, i + 1)

\* An exception leaves every activation: nothing catches it below Prompt(...)
ScanRaises(raised) ==
    /\ frames' = <<>>
    /\ prompt' = None
    /\ call' = [NoCall EXCEPT !.op = "init", !.raised = raised]

\* Prompt(template_text): Template(input_text=template_text) enters _parse_and_validate
ScanCall ==
    /\ call.op = "none"
    /\ frames = <<>>
    /\ frames' = <<Activation(NewTemplate(None, Some(template_text)))>>
    /\ UNCHANGED <<template_text, prompt, call>>

\* One iteration of the for loop of the innermost activation.  A ] that closes the
\* open section enters _parse_and_validate of the section (close -> _before_close),
\* a separator outside every child enters that of the alternative.
ScanStep ==
    /\ frames # <<>>
    /\ LET f == frames[Len(frames)]
           outer == SubSeq(frames, 1, Len(frames) - 1)
       IN  /\ f.pc = "for"
           /\ ~f.s.broke
           /\ f.i < Len(f.text)
           /\ LET char == f.text[f.i + 1]
                  cc == f.s.current_component
              IN  IF char = sc_TEMPLATE.CLOSING /\ cc # None /\ cc[1].type = "Template" /\ f.s.nested_template_stack = <<>>
                  THEN /\ frames' = outer \o << [f EXCEPT !.pc = "close"],
                                               Activation([cc[1] EXCEPT !.input_text = Some(cc[1].input_characters)]) >>
                       /\ UNCHANGED <<prompt, call>>
                  ELSE IF char = sc_TEMPLATE.SEPARATOR /\ cc = None
                  THEN /\ frames' = outer \o << [f EXCEPT !.pc = "alternative"],
                                               Activation(NewTemplate(None, Some(AlternativeText(f.text, f.i)))) >>
                       /\ UNCHANGED <<prompt, call>>
                  ELSE LET s == ScanChar(f.s, f.text, f.i, char)
                       IN  IF s.raised # None
                           THEN ScanRaises(s.raised)
                           ELSE /\ frames' = outer \o << [f EXCEPT !.s = s, !.i = @ + 1] >>
                                /\ UNCHANGED <<prompt, call>>
    /\ UNCHANGED template_text

\* The innermost activation has left its loop: the checks after the loop, then the
\* return.  The caller finishes close() and saves the section, or takes the
\* alternative, cuts its own text at the separator and breaks; the outermost
\* activation returns to Prompt(...).
ScanReturn ==
    /\ frames # <<>>
    /\ LET f == frames[Len(frames)]
       IN  /\ f.pc = "for"
           /\ f.s.broke \/ f.i >= Len(f.text)
           /\ LET r == AfterLoop(f.s, f.text)
              IN  IF r.raised # None
                  THEN ScanRaises(r.raised)
                  ELSE IF Len(frames) = 1
                  THEN /\ frames' = <<>>
                       /\ prompt' = Some([template_text |-> template_text, template |-> r.obj, variables |-> None])
                       /\ call' = [NoCall EXCEPT !.op = "init"]
                  ELSE LET caller == frames[Len(frames) - 1]
                           outer == SubSeq(frames, 1, Len(frames) - 2)
                           closed == [ResetInputCharacters(r.obj) EXCEPT !.end_index = Some(caller.i + 1)]
                       IN  /\ frames' = outer \o
                                << IF caller.pc = "close"
                                   THEN [caller EXCEPT !.s.self.components = Append(@, closed),
                                                       !.s.self.templates = Append(@, closed),
                                                       !.s.current_component = None,
                                                       !.i = @ + 1,
                                                       !.pc = "for"]
                                   ELSE [caller EXCEPT !.s.self.alternative = Some(r.obj),
                                                       !.s.self.input_text = Some(Slice(caller.text, 0, caller.i)),
                                                       !.s.broke = TRUE,
                                                       !.pc = "for"] >>
                           /\ UNCHANGED <<prompt, call>>
    /\ UNCHANGED template_text

\* prompt.substitute(params) on the Prompt the steps have built
SubstituteScanned == call.op = "init" /\ \E params \in ScanParams : PromptSubstitute(params, FALSE)

NextScan == ScanCall \/ ScanStep \/ ScanReturn \/ SubstituteScanned

SpecScan == InitScan /\ [][NextScan]_vars

\* The steps end where the method ends as a whole
StepwiseAgrees ==
    (frames = <<>> /\ call.op = "init") =>
        LET r == PromptInitCall(template_text)
        IN  /\ call.raised = r.raised
            /\ r.raised = None => prompt = Some([template_text |-> template_text, template |-> r.obj, variables |-> None])

(***************************************************************************)
(* Vocabulary of the scan: the raw text of a block and bracket balance     *)
(***************************************************************************)
RECURSIVE RawText(_)
\* The text a block was parsed from: its own text, then the separator and the raw
\* text of its alternative
RawText(b) ==
    IF b.alternative = None THEN b.input_text[1]
    ELSE b.input_text[1] \o <<sc_TEMPLATE.SEPARATOR>> \o RawText(b.alternative[1])

\* No prefix holds more ] than [, and the totals are equal
Balanced(text) ==
    /\ \A k \in 1..Len(text) : Excess(text, 1, k) >= 0
    /\ Excess(text, 1, Len(text)) = 0

\* The activation has an open child, a section
SectionOpen(f) == f.s.current_component # None /\ f.s.current_component[1].type = "Template"

\* The characters captured for the open section of an activation
Captured(f) == f.s.current_component[1].input_characters

(***************************************************************************)
(* C25: at every step of a block's scan at most one child is open: the     *)
(* children saved so far are closed and end before the open one starts.    *)
(* The depth stack is non-empty only while the open child is a section,    *)
(* where its depth is the number of [ not yet matched in the captured      *)
(* text, and it is empty when no child is open and when a section is       *)
(* being closed.  The text captured for a section is the source since its  *)
(* [ and never holds more ] than [; the raw text of every closed section   *)
(* is bracket-balanced and is the source between its [ and the matching ]. *)
(***************************************************************************)
C25_ScanInvariants ==
    \A n \in 1..Len(frames) :
        LET f == frames[n]
            cc == f.s.current_component
            stack == f.s.nested_template_stack
        IN  /\ \A k \in 1..Len(f.s.self.components) :
                  LET c == f.s.self.components[k]
                  IN  /\ c.start_index # None /\ c.end_index # None
                      /\ c.end_index[1] <= f.i
                      /\ cc # None => c.end_index[1] <= cc[1].start_index[1]
            /\ cc # None => cc[1].start_index # None /\ cc[1].end_index = None /\ cc[1].start_index[1] < f.i
            /\ stack # <<>> => SectionOpen(f)
            /\ cc = None => stack = <<>>
            /\ f.pc = "close" => SectionOpen(f) /\ stack = <<>>
            /\ SectionOpen(f) =>
                  /\ Captured(f) = SubSeq(f.text, cc[1].start_index[1] + 2, f.i)
                  /\ Len(stack) = Excess(Captured(f), 1, Len(Captured(f)))
                  /\ \A k \in 1..Len(Captured(f)) : Excess(Captured(f), 1, k) >= 0
                  /\ f.pc = "close" => /\ Balanced(Captured(f))
                                       /\ frames[n + 1].text = Captured(f)
                                       /\ f.text[f.i + 1] = sc_TEMPLATE.CLOSING
            /\ \A k \in 1..Len(f.s.self.templates) :
                  LET t == f.s.self.templates[k]
                  IN  /\ Balanced(RawText(t))
                      /\ RawText(t) = SubSeq(f.text, t.start_index[1] + 2, t.end_index[1] - 1)
                      /\ <<t.start_index[1] + 1, t.end_index[1]>> \in Sections(f.text)

\* A section that holds a section has been closed and saved by the scan of its block
C25_Witness ==
    \E n \in 1..Len(frames) : \E k \in 1..Len(frames[n].s.self.templates) :
        /\ frames[n].s.self.templates[k].templates # <<>>
        /\ frames[n].s.nested_template_stack = <<>>

(***************************************************************************)
(* C26: for every text, Prompt(text) succeeds or raises PromptSyntaxError,  *)
(* and no call raises InternalError.  In a constructed Prompt every        *)
(* component of every block is a Template or a Variable that has been      *)
(* started and closed, so that the guards of append, of                    *)
(* Variable.substitute and of _substitute_all_components are not met, and  *)
(* substitute raises nothing from any block.                               *)
(***************************************************************************)
C26_NoInternalError ==
    /\ call.raised # None => call.raised[1].type # "InternalError"
    /\ call.op = "init" => call.raised = None \/ call.raised[1].type = "PromptSyntaxError"
    /\ call.op = "init" => (call.raised = None <=> prompt # None)
    /\ prompt # None =>
          \A b \in Blocks :
              /\ \A k \in 1..Len(b.components) :
                    /\ b.components[k].type \in {"Template", "Variable"}
                    /\ b.components[k].start_index # None
                    /\ b.components[k].end_index # None
                    /\ InputCharacters(b.components[k]) = <<>>
              /\ \A k \in 1..Len(b.variables) : b.variables[k].end_index # None
              /\ Len(b.components) = Len(b.templates) + Len(b.variables)
    /\ call.op = "substitute" =>
          /\ call.raised = None
          /\ \A b \in Blocks : TemplateSubstitute(b, call.params).raised = None

\* substitute returned from a Prompt that has a section with a variable in it
C26_Witness ==
    /\ call.op = "substitute"
    /\ call.returned # None
    /\ \E b \in Blocks : b.start_index # None /\ b.variables # <<>>

(***************************************************************************)
(* Termination.  Prompt(text) runs to its end once it is called: the       *)
(* steps of the parse are taken as long as one is possible.  Whether and   *)
(* when substitute is called is up to the caller.                          *)
(***************************************************************************)
ScanNext == ScanCall \/ ScanStep \/ ScanReturn

SpecScanFair == SpecScan /\ WF_vars(ScanNext)

RECURSIVE TreeSize(_)
RECURSIVE TreeSizes(_, _)
\* The number of blocks of a tree: the block, its sections and its alternatives
TreeSize(b) ==
    1 + TreeSizes(b.templates, 1)
      + (IF b.alternative = None THEN 0 ELSE TreeSize(b.alternative[1]))

\* The blocks of the trees of templates, from index k on
TreeSizes(templates, k) ==
    IF k > Len(templates) THEN 0 ELSE TreeSize(templates[k]) + TreeSizes(templates, k + 1)

RECURSIVE SubstituteCalls(_, _)
RECURSIVE SectionCalls(_, _, _)
\* The number of calls of Template.substitute made by b.substitute(params): the call
\* itself, then either that of the alternative, or those of the sections of the block
SubstituteCalls(b, params) ==
    IF SubstituteVariables(b.variables, params).raised # None
    THEN IF b.alternative = None THEN 1 ELSE 1 + SubstituteCalls(b.alternative[1], params)
    ELSE 1 + SectionCalls(b.templates, params, 1)

\* The calls made for the sections of a block, from index k on
SectionCalls(templates, params, k) ==
    IF k > Len(templates) THEN 0
    ELSE SubstituteCalls(templates[k], params) + SectionCalls(templates, params, k + 1)

\* Every recursive parse runs on a text strictly shorter than the text of the
\* activation that entered it, and no activation reads past its text; the tree
\* built has at most one block per character of the text, every section and every
\* alternative was parsed from a shorter text than its block, and substitute makes
\* at most one call per block of the tree
RecursionDescends ==
    /\ \A n \in 1..Len(frames) :
          /\ frames[n].i <= Len(frames[n].text)
          /\ n > 1 => /\ Len(frames[n].text) < Len(frames[n - 1].text)
                      /\ frames[n - 1].pc \in {"close", "alternative"}
                      /\ frames[n - 1].pc = "close" => Len(frames[n].text) < frames[n - 1].i
                      /\ frames[n - 1].pc = "alternative" => Len(frames[n].text) = Len(frames[n - 1].text) - frames[n - 1].i - 1
          /\ frames[n].pc = "for" <=> n = Len(frames)
    /\ Len(frames) <= Len(template_text) + 1
    /\ prompt # None =>
          /\ TreeSize(prompt[1].template) <= Len(template_text)
          /\ \A b \in Blocks :
                /\ \A k \in 1..Len(b.templates) : Len(RawText(b.templates[k])) < Len(b.input_text[1])
                /\ b.alternative # None => Len(RawText(b.alternative[1])) < Len(RawText(b))
                /\ Len(Chain(b)) <= TreeSize(b)
    /\ call.op = "substitute" =>
          /\ call.raised = None
          /\ SubstituteCalls(prompt[1].template, call.params) <= TreeSize(prompt[1].template)

\* Prompt(template_text) has returned or raised
Parsed == frames = <<>> /\ call.op # "none"

(***************************************************************************)
(* C27: parsing a text and substituting into the parsed template           *)
(* terminate.  Every recursive parse, of a captured section or of the text *)
(* after a separator, runs on a text strictly shorter than the text of the *)
(* block that entered it, and the parse of every text comes to its end;    *)
(* substitute descends through a tree of at most as many blocks as the     *)
(* text has characters, one call per block at most.                        *)
(***************************************************************************)
C27_Terminates == []RecursionDescends /\ <>Parsed

\* The parse is three activations deep: a section or an alternative inside another
C27_Witness == Len(frames) >= 3

====
